---- MODULE Spec2Model ----
(***************************************************************************)
(* Embedding and matching engine of ai-accounting-job-matching.            *)
(*                                                                         *)
(* Part 1: the Redis-backed fixed-window rate limiter                      *)
(* (app/core/rate_limit.py), the exception classes it raises               *)
(* (app/core/exceptions.py), the rate-limited embedding client             *)
(* (app/services/embeddings.py), its health check (app/services/base.py)   *)
(* and the CV embedding path that bypasses it                              *)
(* (app/services/cv_processor.py).                                         *)
(*                                                                         *)
(* Part 2: the similarity search (app/repositories/job.py,                 *)
(* app/services/vector_search.py), the matching runs that persist          *)
(* JobMatch rows (app/services/job_matching.py, app/database.py), the CV   *)
(* look-up (app/repositories/cv.py) and the batch tasks                    *)
(* (app/tasks/jobs.py).                                                    *)
(*                                                                         *)
(* Every await of the Python code is one step of a worker, so that other   *)
(* workers, the clock and the life-cycle calls interleave between the      *)
(* store commands exactly where the event loop or another process can run. *)
(***************************************************************************)
EXTENDS Integers, Sequences, FiniteSets, TLC

(***************************************************************************)
(* Bounds of the model.                                                    *)
(***************************************************************************)
NumWorkers == 2
MaxTime == 3
max_requests == 2
window_seconds == 2
MaxCalls == 4
NumJobs == 3
ScoreUnit == 1
NumUsers == 2
MaxRuns == 2
MaxCvs == 2
batch_size == 2

(***************************************************************************)
(* Program constants.                                                      *)
(***************************************************************************)
max_text_length == 8191
EMBEDDING_DIMENSIONS == 1536

Workers == 1..NumWorkers
Buckets == 0..(MaxTime \div window_seconds)
NoExpiry == 0 - 1
ProviderDims == {EMBEDDING_DIMENSIONS, EMBEDDING_DIMENSIONS - 1}

Max(a, b) == IF a >= b THEN a ELSE b
Min(a, b) == IF a <= b THEN a ELSE b

(***************************************************************************)
(* Texts.  A text is known by its number of characters, the number of      *)
(* characters left after replace("\n", " ").strip(), and the number of     *)
(* tokens the encoder counts in the stripped text.                         *)
(***************************************************************************)
NoText == [chars |-> 0 - 1, inner |-> 0 - 1, tokens |-> 0 - 1]
EmptyText == [chars |-> 0, inner |-> 0, tokens |-> 0]
BlankText == [chars |-> 3, inner |-> 0, tokens |-> 0]
OkText == [chars |-> 6, inner |-> 4, tokens |-> 1]
LongText == [chars |-> 40000, inner |-> 40000, tokens |-> max_text_length + 1]
TestText == [chars |-> 4, inner |-> 4, tokens |-> 1]
HealthText == [chars |-> 12, inner |-> 12, tokens |-> 2]
Texts == {EmptyText, BlankText, OkText, LongText}

(***************************************************************************)
(* Exceptions: what reaches the caller of `raise Cls(message)`.            *)
(***************************************************************************)
NoError == [type |-> "none", code |-> "none", msg |-> "none"]

\* An AttributeError raised by reading a missing attribute of a cls object.
AttributeError(cls) ==
  [type |-> "AttributeError", code |-> "none", msg |-> cls]

\* JobMatchingError.__init__ calls self._log_error(message), which reads
\* self.context, before super().__init__() has assigned self.context: the
\* construction of every subclass object raises AttributeError instead.
JobMatchingError(cls, code, msg) == AttributeError(cls)

RateLimitError(msg) == JobMatchingError("RateLimitError", "RATE_LIMIT_ERROR", msg)

OpenAIError(msg) == JobMatchingError("OpenAIError", "OPENAI_ERROR", msg)

\* redis.RedisError as raised by the client library.
RedisError == [type |-> "RedisError", code |-> "none", msg |-> "store"]

(***************************************************************************)
(* State.                                                                  *)
(***************************************************************************)
VARIABLES
  now,          \* wall clock, in seconds
  counter,      \* value of the limiter's Redis key, 0 when the key is absent
  expiry,       \* absolute expiry time of the key, NoExpiry when it has none
  redis,        \* RateLimiter.redis: "None", "open" or "closed"
  initialized,  \* EmbeddingService.initialized
  cv_embedding, \* length of the stored CV.embedding, 0 when NULL
  pc,           \* per worker: the await it is suspended at
  loc,          \* per worker: the locals of its running call
  last,         \* the outcome of the call that finished most recently
  calls,        \* number of calls started so far
  okIncr,       \* per window: direct acquires that succeeded on an INCR made in it
  seq,          \* per window: direct acquires begun and ended inside it
  initOk        \* EmbeddingService.init() returned and close() has not run

VARIABLES
  distance,     \* per job: cosine distance of job_embeddings.embedding to the
                \* query vector, NoEmbedding when the job has no vector
  found,        \* the most recent search call and what it returned
  job_matches,  \* the committed rows of the table job_matches
  mpc,          \* per matching run: the await it is suspended at
  mloc,         \* per matching run: its locals, its session and its outcome
  cvs,          \* the rows of the table cvs
  refreshed,    \* the most recent refresh_job_matches call of the search
                \* service and what it returned
  batch         \* the running batch task: its locals, its session, its result

VARIABLES
  jobs,         \* the committed rows of the table of jobs: per job whether
                \* it has an embedding, and its embedding_updated_at
  cvtask        \* the process_cv task of one CV: its attempts, its retries
                \* and the committed row of the CV

run_vars == <<job_matches, mpc, mloc>>

cv_vars == <<cvs, refreshed, batch>>

task_vars == <<jobs, cvtask>>

mvars == <<distance, found, job_matches, mpc, mloc, cvs, refreshed, batch,
          jobs, cvtask>>

vars == <<now, counter, expiry, redis, initialized, cv_embedding, pc, loc,
          last, calls, okIncr, seq, initOk, distance, found, job_matches, mpc,
          mloc, cvs, refreshed, batch, jobs, cvtask>>

\* The job pool.  A score of 1.0 is ScoreUnit; distances and scores are
\* whole multiples of 1/ScoreUnit.
JobIds == 1..NumJobs
NoEmbedding == 0 - 1
Distances == 0..(2 * ScoreUnit)
Locations == {"London", "Leeds"}
Services == {"Audit", "Tax"}
Seniorities == {"Senior", "Junior"}
\* Job.location, Job.service and Job.seniority of the jobs of the pool.
JobLocation(j) == IF j % 3 = 0 THEN "Leeds" ELSE "London"
JobService(j) == IF j % 2 = 1 THEN "Audit" ELSE "Tax"
JobSeniority(j) == IF j % 3 = 1 THEN "Senior" ELSE "Junior"

NoQuery ==
  [min_similarity |-> 0, limit |-> 0, location |-> "", seniority |-> "",
   service |-> ""]
FoundInit ==
  [op |-> "none", q |-> NoQuery, status |-> "none", err |-> NoError,
   result |-> <<>>, repeated |-> FALSE, again |-> <<>>]

\* The users, by telegram_id, and the matching runs, in the order in which
\* they are started.
Users == 1..NumUsers
RunIds == 1..MaxRuns
None == 0 - 1

RunInit ==
  [telegram_id |-> 0, results |-> <<>>, i |-> 1, pending |-> {},
   status |-> "none", err |-> NoError, overlap |-> {}]

InitRuns ==
  /\ job_matches = {}
  /\ mpc = [r \in RunIds |-> "new"]
  /\ mloc = [r \in RunIds |-> RunInit]

\* A CV row, and what get_latest_by_user returns when there is none.
NoCv == [id |-> None, user_id |-> None, created_at |-> None,
         embedding |-> FALSE]

RefreshedInit ==
  [op |-> "none", user_id |-> 0, cv |-> NoCv, seen |-> {},
   status |-> "none", err |-> NoError, value |-> <<>>, searched |-> FALSE,
   fault |-> FALSE]

BatchInit ==
  [task |-> "none", stage |-> "new", items |-> {}, i |-> 1,
   pending |-> {}, broken |-> FALSE, result |-> <<>>, updated_count |-> 0,
   status |-> "none", err |-> NoError, committed |-> {}, fault |-> FALSE,
   raised_at |-> "none", summary |-> [success |-> FALSE], provider |-> {},
   started |-> 0, ended |-> 0, prev |-> {}, prev_at |-> 0]

\* A row of the table of jobs, as far as the embedding refresh goes.
JobRow(embedding, at) == [embedding |-> embedding, embedding_updated_at |-> at]

\* The process_cv task of one CV before it is queued: request.retries, the
\* countdowns of the retries scheduled so far, the outcome, and the
\* committed row of the CV, if there is one.
CvTaskInit ==
  [stage |-> "new", retries |-> 0, attempts |-> 0, scheduled |-> <<>>,
   cause |-> "none", status |-> "none", exists |-> TRUE,
   row |-> [status |-> "pending", extracted_text |-> FALSE,
            analysis |-> FALSE, embedding |-> FALSE],
   bot |-> "none"]

InitTasks ==
  /\ jobs = [j \in JobIds |-> JobRow(FALSE, None)]
  /\ cvtask = CvTaskInit

InitCvs ==
  /\ cvs = {}
  /\ refreshed = RefreshedInit
  /\ batch = BatchInit
  /\ InitTasks

InitMatching ==
  /\ distance = [j \in JobIds |-> NoEmbedding]
  /\ found = FoundInit
  /\ InitRuns
  /\ InitCvs

LocInit ==
  [op |-> "none", text |-> NoText, window_start |-> 0, count |-> 0,
   incrWin |-> 0 - 1, seen |-> 0 - 1, acq |-> "none", fault |-> FALSE,
   provider |-> FALSE, sent |-> NoText, probe |-> "none", ord |-> 0,
   ready |-> FALSE, closed |-> FALSE]

\* What is kept of a finished call: the operation, its inputs, the path it
\* took and what the caller received.
Outcome(l, status, err, value) ==
  [op |-> l.op, text |-> l.text, acq |-> l.acq, fault |-> l.fault,
   provider |-> l.provider, sent |-> l.sent, probe |-> l.probe,
   ord |-> l.ord, seen |-> l.seen, ready |-> l.ready, closed |-> l.closed,
   status |-> status, err |-> err, value |-> value]

InitLimiter ==
  /\ now = 0
  /\ counter = 0
  /\ expiry = NoExpiry
  /\ redis = "None"
  /\ initialized = FALSE
  /\ cv_embedding = 0
  /\ pc = [w \in Workers |-> "idle"]
  /\ loc = [w \in Workers |-> LocInit]
  /\ last = Outcome(LocInit, "none", NoError, 0)
  /\ calls = 0
  /\ okIncr = [b \in Buckets |-> 0]
  /\ seq = [b \in Buckets |-> 0]
  /\ initOk = FALSE

Init == InitLimiter /\ InitMatching

(***************************************************************************)
(* Pure helpers of the limiter and of the embedding client.                *)
(***************************************************************************)
\* The fixed window a clock reading falls into.
Bucket(t) == t \div window_seconds

\* window_start = int(now - (now % self.window_seconds))
WindowStart(t) == t - (t % window_seconds)

RemainingNoClamp(count) ==
  IF count = 0 THEN max_requests ELSE max_requests - count

\* RateLimitInfo.remaining as get_limit_info computes it from GET's reply
\* (count 0 stands for the reply None of an absent key).
Remaining(count) ==
  IF count = 0 THEN max_requests ELSE Max(0, max_requests - count)

AcquireExceptRedisErrorOpen == "ok"

\* The except clause of acquire: a RedisError becomes a raised error.
AcquireExceptRedisError == "store_error"

wrapperAlways(acq) == "call_func"

\* The wrapper of RateLimiter.__call__: func runs only after acquire returned.
wrapper(acq) == IF acq = "ok" THEN "call_func" ELSE "raise"

\* EmbeddingService._validate_text: the cleaned text, or NoText when the code
\* reaches one of its two raise statements.
_validate_text(t) ==
  IF t.chars = 0
  THEN NoText
  ELSE LET cleaned == [chars |-> t.inner, inner |-> t.inner,
                       tokens |-> t.tokens]
       IN IF cleaned.tokens > max_text_length THEN NoText ELSE cleaned

\* text[:8191] of CVProcessor._generate_embedding: a cut by characters.
Truncate(t) ==
  [chars |-> Min(t.chars, max_text_length),
   inner |-> Min(t.inner, max_text_length),
   tokens |-> Min(t.tokens, Min(t.chars, max_text_length))]

(***************************************************************************)
(* Control helpers.                                                        *)
(***************************************************************************)
\* The awaits of a command sent to the limiter's store.
StorePcs == {"incr", "expire", "info_get", "info_ttl", "ping"}

\* Worker w is suspended at await p with locals l.  A store command goes
\* to the client self.redis holds when it is sent: closed says that this
\* client has been closed, before the command or while it was under way.
\* The ping of init() goes to the client init() has just made.
Goto(w, l, p) ==
  /\ pc' = [pc EXCEPT ![w] = p]
  /\ loc' = [loc EXCEPT ![w] =
               [l EXCEPT !.closed = (p \in StorePcs \ {"ping"}
                                       /\ redis = "closed")]]
  /\ UNCHANGED <<last, initOk>>

\* The call of worker w returns (status "ok") or raises (status "error").
EndCall(w, l, status, err, value) ==
  /\ pc' = [pc EXCEPT ![w] = "idle"]
  /\ loc' = [loc EXCEPT ![w] = LocInit]
  /\ last' = Outcome(l, status, err, value)
  /\ initOk' = IF l.op = "init" /\ status = "ok" THEN TRUE ELSE initOk

\* The wrapped generate_embedding returns or raises.  When the caller is
\* health_check, _check_health returns True after the embed call and False
\* from its `except Exception`, and health_check returns that boolean.
EndEmbed(w, l, status, err, value) ==
  IF l.op = "health"
  THEN EndCall(w, [l EXCEPT !.probe = IF status = "ok" THEN "ok" ELSE "failed"],
               "ok", NoError, status = "ok")
  ELSE EndCall(w, l, status, err, value)

\* The body of generate_embedding up to its first await.
CallFunc(w, l) ==
  LET cleaned == _validate_text(l.text)
  IN IF cleaned = NoText
     THEN EndEmbed(w, l, "error", OpenAIError("Failed to generate embedding"), 0)
     ELSE Goto(w, [l EXCEPT !.provider = TRUE, !.sent = cleaned], "provider")

\* acquire has ended for worker w: it returned (acq = "ok") or raised err.
AcquireDone(w, l, acq, err) ==
  LET b == Bucket(l.window_start)
      whole == l.op = "acquire" /\ acq \in {"ok", "exceeded"}
               /\ b = Bucket(now)
      l2 == [l EXCEPT !.acq = acq,
                      !.ord = IF whole THEN seq[b] + 1 ELSE 0]
  IN /\ okIncr' = IF l.op = "acquire" /\ acq = "ok" /\ l.incrWin \in Buckets
                  THEN [okIncr EXCEPT ![l.incrWin] = @ + 1]
                  ELSE okIncr
     /\ seq' = IF whole
               THEN [seq EXCEPT ![b] = @ + 1]
               ELSE seq
     /\ IF l.op = "acquire"
        THEN EndCall(w, l2, IF acq = "ok" THEN "ok" ELSE "error", err, 0)
        ELSE IF wrapper(acq) = "call_func"
             THEN CallFunc(w, l2)
             ELSE EndEmbed(w, l2, "error", err, 0)

\* A store command of acquire raised redis.RedisError.
AcquireStoreFault(w, l) ==
  AcquireDone(w, [l EXCEPT !.fault = TRUE], AcquireExceptRedisError,
              IF AcquireExceptRedisError = "ok"
              THEN NoError
              ELSE RateLimitError("Failed to check rate limit"))

\* acquire up to its first await: the guard on self.redis and the clock read.
BeginAcquire(w, l) ==
  IF redis = "None"
  THEN AcquireDone(w, l, "not_initialized",
                   RateLimitError("Rate limiter not initialized"))
  ELSE /\ Goto(w, [l EXCEPT !.window_start = WindowStart(now)], "incr")
       /\ UNCHANGED <<okIncr, seq>>

\* acquire after the expiry has been dealt with: the comparison with the limit.
AfterExpire(w, l) ==
  IF l.count > max_requests
  THEN /\ Goto(w, l, "info_get")
       /\ UNCHANGED <<okIncr, seq>>
  ELSE AcquireDone(w, l, "ok", NoError)

(***************************************************************************)
(* The store commands of the limiter, one step each.                       *)
(***************************************************************************)
StoreUnchanged == UNCHANGED <<counter, expiry>>

EnvUnchanged == UNCHANGED <<now, redis, initialized, cv_embedding>> /\ UNCHANGED mvars

\* A worker starts a new call.
CanStart(w) == pc[w] = "idle" /\ calls < MaxCalls

\* await acquire(identifier), called directly.
StartAcquire(w) ==
  /\ CanStart(w)
  /\ calls' = calls + 1
  /\ BeginAcquire(w, [LocInit EXCEPT !.op = "acquire"])
  /\ StoreUnchanged /\ EnvUnchanged

\* count = await self.redis.incr(key).  INCR creates an absent key with the
\* value 1 and without expiry.
Incr(w, fail) ==
  /\ pc[w] = "incr"
  /\ IF fail
     THEN /\ AcquireStoreFault(w, loc[w])
          /\ StoreUnchanged
     ELSE LET l == [loc[w] EXCEPT !.count = counter + 1,
                                  !.incrWin = Bucket(now)]
          IN /\ counter' = counter + 1
             /\ UNCHANGED expiry
             /\ IF l.count = 1
                THEN /\ Goto(w, l, "expire")
                     /\ UNCHANGED <<okIncr, seq>>
                ELSE AfterExpire(w, l)
  /\ EnvUnchanged /\ UNCHANGED calls

\* await self.redis.expireat(key, window_start + self.window_seconds).
\* EXPIREAT with a time that is not in the future deletes the key; on an
\* absent key it does nothing.
Expire(w, fail) ==
  /\ pc[w] = "expire"
  /\ IF fail
     THEN /\ AcquireStoreFault(w, loc[w])
          /\ StoreUnchanged
     ELSE LET ts == loc[w].window_start + window_seconds
          IN /\ IF counter = 0
                THEN StoreUnchanged
                ELSE IF ts <= now
                     THEN counter' = 0 /\ expiry' = NoExpiry
                     ELSE expiry' = ts /\ UNCHANGED counter
             /\ AfterExpire(w, loc[w])
  /\ EnvUnchanged /\ UNCHANGED calls

\* await get_limit_info(identifier), called directly.
StartInfo(w) ==
  /\ CanStart(w)
  /\ calls' = calls + 1
  /\ IF redis = "None"
     THEN EndCall(w, [LocInit EXCEPT !.op = "info"], "error",
                  RateLimitError("Rate limiter not initialized"), 0)
     ELSE Goto(w, [LocInit EXCEPT !.op = "info",
                                  !.window_start = WindowStart(now)],
               "info_get")
  /\ StoreUnchanged /\ EnvUnchanged /\ UNCHANGED <<okIncr, seq>>

\* count = await self.redis.get(key)
InfoGet(w, fail) ==
  /\ pc[w] = "info_get"
  /\ IF fail
     THEN IF loc[w].op = "info"
          THEN /\ EndCall(w, [loc[w] EXCEPT !.fault = TRUE], "error",
                          RedisError, 0)
               /\ UNCHANGED <<okIncr, seq>>
          ELSE AcquireStoreFault(w, loc[w])
     ELSE /\ Goto(w, [loc[w] EXCEPT !.seen = counter], "info_ttl")
          /\ UNCHANGED <<okIncr, seq>>
  /\ StoreUnchanged /\ EnvUnchanged /\ UNCHANGED calls

\* ttl = await self.redis.ttl(key), then the RateLimitInfo is built; inside
\* acquire the caller then raises RateLimitError("Rate limit exceeded...").
InfoTtl(w, fail) ==
  /\ pc[w] = "info_ttl"
  /\ IF fail
     THEN IF loc[w].op = "info"
          THEN /\ EndCall(w, [loc[w] EXCEPT !.fault = TRUE], "error",
                          RedisError, 0)
               /\ UNCHANGED <<okIncr, seq>>
          ELSE AcquireStoreFault(w, loc[w])
     ELSE IF loc[w].op = "info"
          THEN /\ EndCall(w, loc[w], "ok", NoError, Remaining(loc[w].seen))
               /\ UNCHANGED <<okIncr, seq>>
          ELSE AcquireDone(w, loc[w], "exceeded",
                           RateLimitError("Rate limit exceeded"))
  /\ StoreUnchanged /\ EnvUnchanged /\ UNCHANGED calls

\* One second passes; Redis drops the key when its expiry time is reached.
Tick ==
  /\ now < MaxTime
  /\ now' = now + 1
  /\ IF expiry # NoExpiry /\ expiry <= now + 1
     THEN counter' = 0 /\ expiry' = NoExpiry
     ELSE StoreUnchanged
  /\ UNCHANGED <<redis, initialized, cv_embedding, pc, loc, last, calls,
                 okIncr, seq, initOk>>
  /\ UNCHANGED mvars

\* The caller of a running call stops: its task is cancelled or its process
\* is killed (the hard time limit of a task does that).
Cancel(w) ==
  /\ pc[w] # "idle"
  /\ pc' = [pc EXCEPT ![w] = "idle"]
  /\ loc' = [loc EXCEPT ![w] = LocInit]
  /\ UNCHANGED <<now, counter, expiry, redis, initialized, cv_embedding, last,
                 calls, okIncr, seq, initOk>>
  /\ UNCHANGED mvars

(***************************************************************************)
(* The embedding service.                                                  *)
(***************************************************************************)
\* await embedding_service.generate_embedding(text): the wrapper installed by
\* @openai_rate_limiter runs acquire("generate_embedding") first.
StartEmbed(w, t) ==
  /\ CanStart(w)
  /\ calls' = calls + 1
  /\ BeginAcquire(w, [LocInit EXCEPT !.op = "embed", !.text = t])
  /\ StoreUnchanged /\ EnvUnchanged

\* response = await openai.Embedding.acreate(input=text, model=self.model);
\* the embedding of the response is returned as it is.
ProviderEmbed(w, fail, out) ==
  /\ pc[w] = "provider"
  /\ IF fail
     THEN EndEmbed(w, loc[w], "error",
                   OpenAIError("Failed to generate embedding"), 0)
     ELSE EndEmbed(w, loc[w], "ok", NoError, out)
  /\ StoreUnchanged /\ EnvUnchanged /\ UNCHANGED <<calls, okIncr, seq>>

\* await embedding_service.health_check(): BaseService.health_check returns
\* False while self.initialized is false, else the result of _check_health,
\* which embeds "health check".
HealthCheck(w) ==
  /\ CanStart(w)
  /\ calls' = calls + 1
  /\ IF ~initialized
     THEN /\ EndCall(w, [LocInit EXCEPT !.op = "health", !.ready = initOk],
                     "ok", NoError, FALSE)
          /\ UNCHANGED <<okIncr, seq>>
     ELSE BeginAcquire(w, [LocInit EXCEPT !.op = "health",
                                          !.text = HealthText,
                                          !.ready = initOk])
  /\ StoreUnchanged /\ EnvUnchanged

\* await embedding_service.init(): openai_rate_limiter.init() assigns
\* self.redis and pings; EmbeddingService.init overrides BaseService.init and
\* never assigns self.initialized.
ServiceInit(w) ==
  /\ CanStart(w)
  /\ calls' = calls + 1
  /\ redis' = "open"
  /\ Goto(w, [LocInit EXCEPT !.op = "init", !.text = TestText], "ping")
  /\ StoreUnchanged
  /\ UNCHANGED <<now, initialized, cv_embedding, okIncr, seq>>
  /\ UNCHANGED mvars

\* await self.redis.ping(), then _init_resources embeds "test".
Ping(w, fail) ==
  /\ pc[w] = "ping"
  /\ IF fail
     THEN /\ EndCall(w, [loc[w] EXCEPT !.fault = TRUE], "error", RedisError, 0)
          /\ UNCHANGED <<okIncr, seq>>
     ELSE BeginAcquire(w, loc[w])
  /\ StoreUnchanged /\ EnvUnchanged /\ UNCHANGED calls

\* await embedding_service.close(): openai_rate_limiter.close() closes the
\* connection when one was made and keeps the closed client in self.redis.
\* The commands under way on the client lose their connection with it.
Close ==
  /\ redis' = IF redis = "None" THEN "None" ELSE "closed"
  /\ initOk' = FALSE
  /\ loc' = [w \in Workers |->
               IF pc[w] \in StorePcs /\ redis # "None"
               THEN [loc[w] EXCEPT !.closed = TRUE] ELSE loc[w]]
  /\ UNCHANGED <<now, counter, expiry, initialized, cv_embedding, pc,
                 calls, okIncr, seq>>
  /\ UNCHANGED mvars

ServiceClose == Close /\ UNCHANGED last

\* ServiceManager._health_check_loop: a service whose health_check returned
\* False or raised is closed and initialised again; the close is this step
\* and keeps what the health check of the iteration found.  The loop is
\* started when init_services has returned, and the iteration taken here
\* finds the service as its last init() left it.
LoopClose ==
  /\ initOk
  /\ last.op = "health"
  /\ last.value = FALSE
  /\ Close
  /\ last' = [last EXCEPT !.op = "loop_close"]

(***************************************************************************)
(* The CV processor, which embeds without the limiter and the validation.  *)
(***************************************************************************)
\* CVProcessor._generate_embedding(raw_text), as process_cv calls it.
StartCv(w, t) ==
  /\ CanStart(w)
  /\ calls' = calls + 1
  /\ Goto(w, [LocInit EXCEPT !.op = "cv", !.text = t, !.provider = TRUE,
                             !.sent = Truncate(t)], "cv_provider")
  /\ StoreUnchanged /\ EnvUnchanged /\ UNCHANGED <<okIncr, seq>>

\* response = await self.openai_client.embeddings.create(...), then
\* CVRepository.update_extracted_data assigns cv.embedding and commits.
CvProvider(w, fail, out) ==
  /\ pc[w] = "cv_provider"
  /\ IF fail
     THEN /\ EndCall(w, loc[w], "error",
                     JobMatchingError("CVProcessingError",
                                      "CV_PROCESSING_ERROR",
                                      "Failed to process CV"), 0)
          /\ UNCHANGED cv_embedding
     ELSE /\ EndCall(w, loc[w], "ok", NoError, out)
          /\ cv_embedding' = out
  /\ StoreUnchanged
  /\ UNCHANGED <<now, redis, initialized, calls, okIncr, seq>>
  /\ UNCHANGED mvars

(***************************************************************************)
(* Specifications.                                                         *)
(***************************************************************************)
\* await openai_rate_limiter.init(): self.redis is assigned before the ping,
\* so it is set whether the ping succeeds or raises.
LimiterInit ==
  /\ redis' = "open"
  /\ UNCHANGED <<now, counter, expiry, initialized, cv_embedding, pc, loc,
                 last, calls, okIncr, seq, initOk>>
  /\ UNCHANGED mvars

\* The embedding service with its life cycle, as the application drives it:
\* store commands and provider calls may fail.
Next ==
  \/ \E w \in Workers : ServiceInit(w)
  \/ \E w \in Workers, fail \in BOOLEAN : Ping(w, fail)
  \/ ServiceClose
  \/ \E w \in Workers : StartEmbed(w, OkText)
  \/ \E w \in Workers : HealthCheck(w)
  \/ \E w \in Workers, fail \in BOOLEAN : Incr(w, fail)
  \/ \E w \in Workers, fail \in BOOLEAN : Expire(w, fail)
  \/ \E w \in Workers, fail \in BOOLEAN : InfoGet(w, fail)
  \/ \E w \in Workers, fail \in BOOLEAN : InfoTtl(w, fail)
  \/ \E w \in Workers, fail \in BOOLEAN, out \in ProviderDims :
       ProviderEmbed(w, fail, out)
  \/ Tick

Spec == Init /\ [][Next]_vars

\* Every path that sends text to the provider: the rate-limited embedding
\* service and the CV processor.
NextPaths ==
  \/ LimiterInit
  \/ \E w \in Workers, t \in Texts : StartEmbed(w, t)
  \/ \E w \in Workers, fail \in BOOLEAN : Incr(w, fail)
  \/ \E w \in Workers, fail \in BOOLEAN : Expire(w, fail)
  \/ \E w \in Workers, fail \in BOOLEAN : InfoGet(w, fail)
  \/ \E w \in Workers, fail \in BOOLEAN : InfoTtl(w, fail)
  \/ \E w \in Workers, fail \in BOOLEAN, out \in ProviderDims :
       ProviderEmbed(w, fail, out)
  \/ \E w \in Workers, t \in Texts : StartCv(w, t)
  \/ \E w \in Workers, fail \in BOOLEAN, out \in ProviderDims :
       CvProvider(w, fail, out)

SpecPaths == Init /\ [][NextPaths]_vars

\* The limiter used directly by concurrent callers, with store failures and
\* callers that stop.
NextLimiter ==
  \/ LimiterInit
  \/ \E w \in Workers : StartAcquire(w)
  \/ \E w \in Workers : StartInfo(w)
  \/ \E w \in Workers, fail \in BOOLEAN : Incr(w, fail)
  \/ \E w \in Workers, fail \in BOOLEAN : Expire(w, fail)
  \/ \E w \in Workers, fail \in BOOLEAN : InfoGet(w, fail)
  \/ \E w \in Workers, fail \in BOOLEAN : InfoTtl(w, fail)
  \/ \E w \in Workers : Cancel(w)
  \/ Tick

SpecLimiter == Init /\ [][NextLimiter]_vars

\* The limiter used by one caller at a time against a store that works.
SeqStartAcquire(w) ==
  /\ \A v \in Workers : pc[v] = "idle"
  /\ StartAcquire(w)

NextSeq ==
  \/ LimiterInit
  \/ \E w \in Workers : SeqStartAcquire(w)
  \/ \E w \in Workers : Incr(w, FALSE)
  \/ \E w \in Workers : Expire(w, FALSE)
  \/ \E w \in Workers : InfoGet(w, FALSE)
  \/ \E w \in Workers : InfoTtl(w, FALSE)
  \/ Tick

SpecSeq == Init /\ [][NextSeq]_vars

\* The services as the application runs them while the store, the database
\* and the provider are alive: init() at startup, by the health loop and by
\* JobMatchingService._init_resources, the health loop, and embedding calls
\* of concurrent callers.  Nothing fails on its own account; a store command
\* whose client was closed either reconnects or raises.
NextLifecycle ==
  \/ \E w \in Workers : ServiceInit(w)
  \/ \E w \in Workers, fail \in BOOLEAN :
       (fail => loc[w].closed) /\ Ping(w, fail)
  \/ \E w \in Workers : HealthCheck(w)
  \/ LoopClose
  \/ \E w \in Workers : StartEmbed(w, OkText)
  \/ \E w \in Workers, fail \in BOOLEAN :
       (fail => loc[w].closed) /\ Incr(w, fail)
  \/ \E w \in Workers, fail \in BOOLEAN :
       (fail => loc[w].closed) /\ Expire(w, fail)
  \/ \E w \in Workers, fail \in BOOLEAN :
       (fail => loc[w].closed) /\ InfoGet(w, fail)
  \/ \E w \in Workers, fail \in BOOLEAN :
       (fail => loc[w].closed) /\ InfoTtl(w, fail)
  \/ \E w \in Workers : ProviderEmbed(w, FALSE, EMBEDDING_DIMENSIONS)
  \/ Tick

SpecLifecycle == Init /\ [][NextLifecycle]_vars

TypeOK ==
  /\ now \in 0..MaxTime
  /\ counter \in 0..MaxCalls
  /\ expiry \in {NoExpiry} \cup 0..(MaxTime + window_seconds)
  /\ redis \in {"None", "open", "closed"}
  /\ initialized \in BOOLEAN
  /\ calls \in 0..MaxCalls
  /\ \A w \in Workers :
       pc[w] \in {"idle", "incr", "expire", "info_get", "info_ttl", "ping",
                  "provider", "cv_provider"}

(***************************************************************************)
(* Part 2.  The similarity search.                                         *)
(*                                                                         *)
(* The query vector is fixed during a search, so a job's vector is kept as *)
(* its cosine distance to the query, which is what pgvector's <=> yields.  *)
(***************************************************************************)
ValueError(msg) == [type |-> "ValueError", code |-> "none", msg |-> msg]

TypeError(msg) == [type |-> "TypeError", code |-> "none", msg |-> msg]

DatabaseError(msg) == JobMatchingError("DatabaseError", "DB_ERROR", msg)

\* 1 - (je.embedding <=> :embedding)
Similarity(d) == ScoreUnit - d

\* column ILIKE '%value%', on values none of which is part of another.
ILike(column, value) == column = value

\* min_similarity=0.7 of JobMatchingService.search_jobs: the least score
\* of the model that is >= 0.7.
DefaultMinSimilarity == (7 * ScoreUnit + 9) \div 10

SimilarNoThreshold(q, j) ==
  /\ distance[j] # NoEmbedding
  /\ (q.location # "" => ILike(JobLocation(j), q.location))
  /\ (q.seniority # "" => ILike(JobSeniority(j), q.seniority))
  /\ (q.service # "" => ILike(JobService(j), q.service))

\* The WHERE clause of find_similar_jobs: the join with job_embeddings, the
\* threshold and the optional filters, each added when its argument is set.
Similar(q, j) ==
  /\ distance[j] # NoEmbedding
  /\ Similarity(distance[j]) >= q.min_similarity
  /\ (q.location # "" => ILike(JobLocation(j), q.location))
  /\ (q.seniority # "" => ILike(JobSeniority(j), q.seniority))
  /\ (q.service # "" => ILike(JobService(j), q.service))

\* ORDER BY similarity DESC over the rows S: every order of the rows in
\* which the similarity never increases.  The statement names no second
\* sort key, so the database may return rows of equal similarity in any
\* order, and in a different order each time.
RECURSIVE OrderBySimilarityDesc(_)
OrderBySimilarityDesc(S) ==
  IF S = {} THEN {<<>>}
  ELSE UNION {{<<j>> \o o : o \in OrderBySimilarityDesc(S \ {j})} :
                j \in {b \in S : \A c \in S :
                         Similarity(distance[b]) >= Similarity(distance[c])}}

\* LIMIT :limit
Limit(o, n) == SubSeq(o, 1, Min(n, Len(o)))

\* (Job(**row._mapping), float(row.similarity)) for row in rows
Rows(o) == [i \in 1..Len(o) |-> <<o[i], Similarity(distance[o[i]])>>]

find_similar_jobs_limit_first(q) ==
  {Rows(SelectSeq(Limit(o, q.limit), LAMBDA j : Similar(q, j))) :
     o \in OrderBySimilarityDesc({j \in JobIds : distance[j] # NoEmbedding})}

\* JobRepository.find_similar_jobs: the results the statement can return.
find_similar_jobs(q) ==
  {Rows(Limit(o, q.limit)) :
     o \in OrderBySimilarityDesc({j \in JobIds : Similar(q, j)})}

Queries ==
  [min_similarity : 0..ScoreUnit, limit : 1..NumJobs,
   location : {""} \cup Locations, seniority : {""} \cup Seniorities,
   service : {""} \cup Services]

SearchUnchanged ==
  /\ UNCHANGED distance /\ UNCHANGED run_vars /\ UNCHANGED cv_vars
  /\ UNCHANGED task_vars

\* A search reads the pool and writes nothing, so what it returns does not
\* depend on the searches before it: one search per pool, and its
\* repetition, cover them all.
CanSearch == found.op = "none"

LimiterUnchanged ==
  UNCHANGED <<now, counter, expiry, redis, initialized, cv_embedding, pc,
              loc, last, calls, okIncr, seq, initOk>>

\* await job_repo.find_similar_jobs(embedding, min_similarity=..., limit=...,
\* location=..., seniority=..., service=...)
FindSimilarJobs(q) ==
  /\ CanSearch
  /\ \E r \in find_similar_jobs(q) :
       found' = [FoundInit EXCEPT !.op = "find_similar_jobs", !.q = q,
                                  !.status = "ok", !.result = r]
  /\ SearchUnchanged /\ LimiterUnchanged

\* await job_matching_service.search_jobs(embedding, preferences, limit):
\* location and service of the preferences, min_similarity=0.7.
SearchJobs(location, service, limit) ==
  LET q == [min_similarity |-> DefaultMinSimilarity, limit |-> limit,
            location |-> location, seniority |-> "", service |-> service]
  IN /\ CanSearch
     /\ \E r \in find_similar_jobs(q) :
          found' = [FoundInit EXCEPT !.op = "search_jobs", !.q = q,
                                     !.status = "ok", !.result = r]
     /\ SearchUnchanged /\ LimiterUnchanged

\* The same call once more, on the same pool.
SearchAgain ==
  /\ found.op \in {"find_similar_jobs", "search_jobs"}
  /\ ~found.repeated
  /\ \E r \in find_similar_jobs(found.q) :
       found' = [found EXCEPT !.repeated = TRUE, !.again = r]
  /\ SearchUnchanged /\ LimiterUnchanged

\* VectorSearchService.find_matching_jobs(cv_id, min_score, limit) and
\* find_matching_cvs(job_id, min_score, limit).  Both begin with
\* repo.get(id, load_relationships=["embedding"]); BaseRepository.get takes
\* the id only, so the call raises TypeError before any statement runs.
\* `except Exception` then raises DatabaseError(...), whose construction
\* fails as that of every JobMatchingError does.
find_matching(op, min_score, limit) ==
  [FoundInit EXCEPT !.op = op,
                    !.q = [NoQuery EXCEPT !.min_similarity = min_score,
                                          !.limit = limit],
                    !.status = "error",
                    !.err = DatabaseError("Failed to find matching")]

FindMatchingJobs(min_score, limit) ==
  /\ CanSearch
  /\ found' = find_matching("find_matching_jobs", min_score, limit)
  /\ SearchUnchanged /\ LimiterUnchanged

FindMatchingCvs(min_score, limit) ==
  /\ CanSearch
  /\ found' = find_matching("find_matching_cvs", min_score, limit)
  /\ SearchUnchanged /\ LimiterUnchanged

\* Searches over every pool of NumJobs jobs.
InitSearch ==
  /\ InitLimiter
  /\ distance \in [JobIds -> {NoEmbedding} \cup Distances]
  /\ found = FoundInit
  /\ InitRuns
  /\ InitCvs

NextSearch ==
  \/ \E q \in Queries : FindSimilarJobs(q)
  \/ \E location \in {""} \cup Locations, service \in {""} \cup Services,
        limit \in 1..NumJobs : SearchJobs(location, service, limit)
  \/ SearchAgain
  \/ \E m \in 0..ScoreUnit, n \in 1..NumJobs : FindMatchingJobs(m, n)
  \/ \E m \in 0..ScoreUnit, n \in 1..NumJobs : FindMatchingCvs(m, n)

SpecSearch == InitSearch /\ [][NextSearch]_vars

(***************************************************************************)
(* The matching runs: JobRecommendationService.generate_recommendations    *)
(* on a session of get_session(), which commits when its body returns and  *)
(* rolls back when it raises.  The service and the repositories only       *)
(* flush.                                                                  *)
(***************************************************************************)
NameError(name) == [type |-> "NameError", code |-> "none", msg |-> name]

\* limit=50 of generate_job_matches
MATCH_LIMIT == 50

\* hours_since_last >= 24
FRESHNESS_HOURS == 24

\* User.last_recommendations: read by _should_generate_recommendations,
\* assigned nowhere.
last_recommendations(u) == None

_should_generate_recommendations(last_at) ==
  IF last_at = None THEN TRUE ELSE now - last_at >= FRESHNESS_HOURS

\* The query generate_job_matches runs for a user whose preferences name
\* no location and no service.
MatchQuery ==
  [min_similarity |-> DefaultMinSimilarity, limit |-> MATCH_LIMIT,
   location |-> "", seniority |-> "", service |-> ""]

createAndCommit(pending, row) ==
  [pending |-> {}, committed |-> pending \cup {row}]

\* BaseRepository.create: session.add(db_obj), await session.flush().  The
\* row is written inside the session's transaction and is not committed.
create(pending, row) ==
  [pending |-> pending \cup {row}, committed |-> {}]

Running(r) == mpc[r] \notin {"new", "done"}

EndRun(r, l, status, err) ==
  /\ mpc' = [mpc EXCEPT ![r] = "done"]
  /\ mloc' = [mloc EXCEPT ![r] = [l EXCEPT !.status = status, !.err = err,
                                           !.pending = {}]]

\* await service.generate_recommendations(telegram_id, force=...), up to
\* the search.  An unknown user makes the code evaluate UserError(message=,
\* error_code=), a TypeError; every exception that leaves the try block
\* meets `except SQLAlchemyError`, a name the module never imports, and
\* becomes a NameError.
StartRun(r, u, force) ==
  /\ mpc[r] = "new"
  /\ \A x \in RunIds : x < r => mpc[x] # "new"
  /\ LET l == [RunInit EXCEPT !.telegram_id = u,
                              !.overlap = {x \in RunIds : Running(x)}]
     IN IF u \notin Users
        THEN EndRun(r, l, "error", NameError("SQLAlchemyError"))
        ELSE IF ~force /\ ~_should_generate_recommendations(
                              last_recommendations(u))
        THEN EndRun(r, l, "ok", NoError)
        ELSE /\ mpc' = [mpc EXCEPT ![r] = "search"]
             /\ mloc' = [mloc EXCEPT ![r] = l]
  /\ UNCHANGED <<distance, found, job_matches>>
  /\ UNCHANGED cv_vars /\ UNCHANGED task_vars
  /\ LimiterUnchanged

\* matches = await self.search_jobs(embedding, preferences, limit=50)
RunSearch(r) ==
  /\ mpc[r] = "search"
  /\ \E res \in find_similar_jobs(MatchQuery) :
       /\ mloc' = [mloc EXCEPT ![r].results = res]
       /\ mpc' = [mpc EXCEPT ![r] = IF Len(res) = 0 THEN "commit"
                                                     ELSE "create"]
  /\ UNCHANGED <<distance, found, job_matches>>
  /\ UNCHANGED cv_vars /\ UNCHANGED task_vars
  /\ LimiterUnchanged

\* job_match = await job_match_repo.create_match(telegram_id, job_id, score)
\* for the next match of save_job_matches.  When the flush raises, the
\* exception leaves the run and get_session rolls the session back.
RunCreate(r, fail) ==
  /\ mpc[r] = "create"
  /\ LET l == mloc[r]
         row == [telegram_id |-> l.telegram_id,
                 job_id |-> l.results[l.i][1],
                 score |-> l.results[l.i][2], run |-> r]
         c == create(l.pending, row)
     IN IF fail
        THEN /\ EndRun(r, l, "error", NameError("SQLAlchemyError"))
             /\ UNCHANGED job_matches
        ELSE /\ job_matches' = job_matches \cup c.committed
             /\ mloc' = [mloc EXCEPT ![r].pending = c.pending,
                                     ![r].i = l.i + 1]
             /\ mpc' = [mpc EXCEPT ![r] = IF l.i = Len(l.results)
                                          THEN "commit" ELSE "create"]
  /\ UNCHANGED <<distance, found>>
  /\ UNCHANGED cv_vars /\ UNCHANGED task_vars
  /\ LimiterUnchanged

\* await session.commit() of get_session, after the run returned.
RunCommit(r, fail) ==
  /\ mpc[r] = "commit"
  /\ IF fail
     THEN /\ EndRun(r, mloc[r], "error",
                    [type |-> "SQLAlchemyError", code |-> "none",
                     msg |-> "commit"])
          /\ UNCHANGED job_matches
     ELSE /\ job_matches' = job_matches \cup mloc[r].pending
          /\ EndRun(r, mloc[r], "ok", NoError)
  /\ UNCHANGED <<distance, found>>
  /\ UNCHANGED cv_vars /\ UNCHANGED task_vars
  /\ LimiterUnchanged

\* The pool of the matching runs: every job but the last one is similar
\* enough to the user's CV.
MatchPool == [j \in JobIds |-> IF j = NumJobs THEN 2 * ScoreUnit ELSE 0]

InitMatch ==
  /\ InitLimiter
  /\ distance = MatchPool
  /\ found = FoundInit
  /\ InitRuns
  /\ InitCvs

\* Matching runs started by concurrent triggers.
NextMatch ==
  \/ \E r \in RunIds, u \in {0} \cup Users, force \in BOOLEAN :
       StartRun(r, u, force)
  \/ \E r \in RunIds : RunSearch(r)
  \/ \E r \in RunIds, fail \in BOOLEAN : RunCreate(r, fail)
  \/ \E r \in RunIds, fail \in BOOLEAN : RunCommit(r, fail)

SpecMatch == InitMatch /\ [][NextMatch]_vars

\* Matching runs one after the other.
SeqStartRun(r, u, force) ==
  /\ \A x \in RunIds : ~Running(x)
  /\ StartRun(r, u, force)

NextMatchSeq ==
  \/ \E r \in RunIds, u \in {0} \cup Users, force \in BOOLEAN :
       SeqStartRun(r, u, force)
  \/ \E r \in RunIds : RunSearch(r)
  \/ \E r \in RunIds, fail \in BOOLEAN : RunCreate(r, fail)
  \/ \E r \in RunIds, fail \in BOOLEAN : RunCommit(r, fail)

SpecMatchSeq == InitMatch /\ [][NextMatchSeq]_vars

(***************************************************************************)
(* The CVs of a user and VectorSearchService.refresh_job_matches.          *)
(***************************************************************************)
\* CVRepository.create_cv: created_at = datetime.now(timezone.utc); the
\* embedding is NULL until the CV has been processed.
UploadCv(u) ==
  /\ Cardinality(cvs) < MaxCvs
  /\ cvs' = cvs \cup {[id |-> Cardinality(cvs) + 1, user_id |-> u,
                       created_at |-> now, embedding |-> FALSE]}
  /\ UNCHANGED <<distance, found, refreshed, batch>> /\ UNCHANGED task_vars
  /\ UNCHANGED run_vars
  /\ LimiterUnchanged

\* CVRepository.update_extracted_data: cv.embedding = embedding, commit.
EmbedCv(c) ==
  /\ c \in cvs
  /\ ~c.embedding
  /\ cvs' = (cvs \ {c}) \cup {[c EXCEPT !.embedding = TRUE]}
  /\ UNCHANGED <<distance, found, refreshed, batch>> /\ UNCHANGED task_vars
  /\ UNCHANGED run_vars
  /\ LimiterUnchanged

get_latest_by_user_oldest(u) ==
  LET mine == {c \in cvs : c.user_id = u}
  IN IF mine = {} THEN {NoCv}
     ELSE {c \in mine : \A e \in mine : c.created_at <= e.created_at}

\* CVRepository.get_latest_by_user: WHERE user_id = :user_id ORDER BY
\* created_at DESC LIMIT 1, scalar_one_or_none().  The rows it can return:
\* of several rows with the same created_at the database picks one.
get_latest_by_user(u) ==
  LET mine == {c \in cvs : c.user_id = u}
  IN IF mine = {} THEN {NoCv}
     ELSE {c \in mine : \A e \in mine : c.created_at >= e.created_at}

\* await vector_search.refresh_job_matches(user_id).  Without a CV it
\* returns [].  With one it calls find_matching_jobs(cv.id), which raises
\* as described at find_matching; `except Exception` of refresh_job_matches
\* raises DatabaseError(...) in turn.  A failure of the statement of
\* get_latest_by_user ends the same way.
RefreshJobMatches(u, fail) ==
  /\ \E cv \in get_latest_by_user(u) :
       refreshed' =
         IF fail
         THEN [RefreshedInit EXCEPT
                 !.op = "refresh_job_matches", !.user_id = u, !.seen = cvs,
                 !.status = "error", !.fault = TRUE,
                 !.err = DatabaseError("Failed to refresh job matches")]
         ELSE IF cv = NoCv
         THEN [RefreshedInit EXCEPT
                 !.op = "refresh_job_matches", !.user_id = u, !.seen = cvs,
                 !.status = "ok", !.value = <<>>]
         ELSE [RefreshedInit EXCEPT
                 !.op = "refresh_job_matches", !.user_id = u, !.seen = cvs,
                 !.cv = cv, !.status = "error",
                 !.err = DatabaseError("Failed to refresh job matches")]
  /\ UNCHANGED <<distance, found, cvs, batch>> /\ UNCHANGED task_vars
  /\ UNCHANGED run_vars
  /\ LimiterUnchanged

\* CV uploads and refreshes as time passes.
NextRefresh ==
  \/ \E u \in Users : UploadCv(u)
  \/ \E c \in cvs : EmbedCv(c)
  \/ \E u \in Users, fail \in BOOLEAN : RefreshJobMatches(u, fail)
  \/ Tick

SpecRefresh == Init /\ [][NextRefresh]_vars

(***************************************************************************)
(* The batch tasks update_job_embeddings and refresh_job_matches of        *)
(* app/tasks/jobs.py.  A task works on one session: the items flush, the   *)
(* task commits once after the loop.  When a flush raises, the session has *)
(* rolled its transaction back and raises on every later statement, flush  *)
(* and commit until rollback() is called, which the tasks never do.        *)
(***************************************************************************)

\* The freshness threshold of an embedding, in clock units.
EmbeddingFreshness == 2

\* A job needs its embedding refreshed when the embedding is missing, or
\* when its embedding_updated_at is older than the threshold; a comparison
\* with a NULL timestamp selects nothing.
Eligible(j) ==
  \/ ~jobs[j].embedding
  \/ /\ jobs[j].embedding_updated_at # None
     /\ now - jobs[j].embedding_updated_at >= EmbeddingFreshness

\* The pages a query with LIMIT n can return of the rows E: all of them
\* when they fit, else any n of them, the query naming no order.
Pages(E, n) ==
  IF Cardinality(E) <= n THEN {E}
  ELSE {P \in SUBSET E : Cardinality(P) = n}

\* jobs = await job_repo.get_jobs_needing_embedding_update(batch_size)
get_jobs_needing_embedding_update(n) ==
  Pages({j \in JobIds : Eligible(j)}, n)

\* users = await job_repo.get_users_for_match_refresh(user_id, batch_size)
get_users_for_match_refresh(n) == Pages(Users, n)

\* The pages the task can get.
ItemsOf(task) ==
  IF task = "update_job_embeddings"
  THEN get_jobs_needing_embedding_update(batch_size)
  ELSE get_users_for_match_refresh(batch_size)

\* The first await of an item.
FirstStage(task) ==
  IF task = "update_job_embeddings" THEN "compute" ELSE "get_cv"

PendingRollbackError ==
  [type |-> "PendingRollbackError", code |-> "none", msg |-> "flush"]

\* job_repo.get_latest_cv(user.id)
get_latest_cv(u) == get_latest_by_user(u)

\* The items of the page are worked on in the order of their ids.
FirstOf(S) == CHOOSE x \in S : \A y \in S : x <= y

\* The end of the body of the for loop, normally or through
\* `except Exception as e: logger.error(...)`: on to the next item, and to
\* db.commit() after the last one.
except(b, outcome) ==
  LET c == [b EXCEPT !.result[b.i] = outcome]
      rest == {x \in b.items : x > b.i}
  IN IF rest # {}
     THEN [c EXCEPT !.i = FirstOf(rest), !.stage = FirstStage(b.task)]
     ELSE [c EXCEPT !.stage = "commit"]

\* The task starts: db = AsyncSession(), then the page is read.  A failure
\* here is outside the loop and leaves the task.  The beat schedule starts
\* the task again when the run before it has ended.
StartTask(task, fail) ==
  /\ batch.stage \in {"new", "done"}
  /\ LET again == batch.task = task /\ batch.status = "ok"
         b0 == [BatchInit EXCEPT
                  !.task = task, !.started = now,
                  !.prev = IF again THEN batch.committed ELSE {},
                  !.prev_at = IF again THEN batch.ended ELSE 0]
     IN IF fail
        THEN batch' = [b0 EXCEPT !.stage = "done", !.status = "raised",
                                 !.fault = TRUE, !.raised_at = "page",
                                 !.err = [type |-> "SQLAlchemyError",
                                          code |-> "none", msg |-> "page"]]
        ELSE \E page \in ItemsOf(task) :
               batch' =
                 IF page = {}
                 THEN [b0 EXCEPT !.stage = "commit"]
                 ELSE [b0 EXCEPT !.items = page,
                                 !.result = [x \in page |-> "none"],
                                 !.i = FirstOf(page),
                                 !.stage = FirstStage(task)]
  /\ UNCHANGED <<distance, found, cvs, refreshed>>
  /\ UNCHANGED run_vars /\ UNCHANGED task_vars
  /\ LimiterUnchanged

\* refresh_job_matches: cv = await job_repo.get_latest_cv(user.id),
\* preferences = await job_repo.get_user_preferences(user.id), then
\* `if cv and cv.embedding:`, which has no else branch.
ItemGetCv ==
  /\ batch.stage = "get_cv"
  /\ \E cv \in get_latest_cv(batch.i) :
       batch' =
         IF batch.broken THEN except(batch, "failed")
         ELSE IF cv # NoCv /\ cv.embedding
         THEN [batch EXCEPT !.stage = "compute"]
         ELSE except(batch, "skipped")
  /\ UNCHANGED <<distance, found, cvs, refreshed>>
  /\ UNCHANGED run_vars /\ UNCHANGED task_vars
  /\ LimiterUnchanged

\* update_job_embeddings: embedding = await openai_service.
\* generate_embedding(job_text); refresh_job_matches: matches = await
\* job_repo.find_matching_jobs(cv_embedding, preferences, limit=50).
ItemCompute(fail) ==
  /\ batch.stage = "compute"
  /\ LET b == [batch EXCEPT !.provider =
                 IF batch.task = "update_job_embeddings"
                 THEN @ \cup {batch.i} ELSE @]
     IN batch' =
          IF fail \/ (batch.task = "refresh_job_matches" /\ batch.broken)
          THEN except(b, "failed")
          ELSE [b EXCEPT !.stage = "update"]
  /\ UNCHANGED <<distance, found, cvs, refreshed>>
  /\ UNCHANGED run_vars /\ UNCHANGED task_vars
  /\ LimiterUnchanged

\* A flush that raised and left the session usable with the item's changes
\* in it.
updateKeepDirty(b, fail) ==
  IF b.broken THEN except(b, "failed")
  ELSE IF fail
  THEN except([b EXCEPT !.pending = @ \cup {b.i}], "failed")
  ELSE except([b EXCEPT !.pending = @ \cup {b.i},
                        !.updated_count = @ + 1], "ok")

\* update_job_embeddings: job.embedding = embedding, job.
\* embedding_updated_at = datetime.utcnow(), await job_repo.update(job);
\* refresh_job_matches: await job_repo.update_user_job_matches(user_id,
\* job_matches).  Both flush; then updated_count += 1.  A flush that raises
\* has rolled the transaction back, the flushes before it included.
update(b, fail) ==
  IF b.broken THEN except(b, "failed")
  ELSE IF fail
  THEN except([b EXCEPT !.broken = TRUE, !.pending = {}], "failed")
  ELSE except([b EXCEPT !.pending = @ \cup {b.i},
                        !.updated_count = @ + 1], "ok")

ItemUpdate(fail) ==
  /\ batch.stage = "update"
  /\ batch' = update(batch, fail)
  /\ UNCHANGED <<distance, found, cvs, refreshed>>
  /\ UNCHANGED run_vars /\ UNCHANGED task_vars
  /\ LimiterUnchanged

\* The UPDATE a flush sends for a job writes the mapped columns that were
\* assigned: embedding.  Job maps no column embedding_updated_at, so the
\* assignment of the task makes an attribute of the instance that no
\* statement writes.
Flushed(row) == JobRow(TRUE, row.embedding_updated_at)

SummaryOfPage(b) ==
  [success |-> TRUE, updated_count |-> Cardinality(b.items)]

\* return {"success": True, "updated_count": updated_count}
Summary(b) == [success |-> TRUE, updated_count |-> b.updated_count]

\* await db.commit() after the loop, then the summary; an exception of the
\* commit is logged and raised again, and the session is closed.
TaskCommit(fail) ==
  /\ batch.stage = "commit"
  /\ IF batch.broken
     THEN /\ batch' = [batch EXCEPT !.stage = "done", !.status = "raised",
                                    !.raised_at = "commit",
                                    !.err = PendingRollbackError,
                                    !.pending = {}, !.ended = now]
          /\ UNCHANGED jobs
     ELSE IF fail
     THEN /\ batch' = [batch EXCEPT !.stage = "done", !.status = "raised",
                                    !.raised_at = "commit",
                                    !.fault = TRUE, !.pending = {},
                                    !.ended = now,
                                    !.err = [type |-> "SQLAlchemyError",
                                             code |-> "none",
                                             msg |-> "commit"]]
          /\ UNCHANGED jobs
     ELSE /\ batch' = [batch EXCEPT !.stage = "done", !.status = "ok",
                                    !.committed = batch.pending,
                                    !.pending = {}, !.ended = now,
                                    !.summary = Summary(batch)]
          /\ jobs' = IF batch.task = "update_job_embeddings"
                     THEN [j \in JobIds |->
                             IF j \in batch.pending THEN Flushed(jobs[j])
                             ELSE jobs[j]]
                     ELSE jobs
  /\ UNCHANGED <<distance, found, cvs, refreshed, cvtask>>
  /\ UNCHANGED run_vars
  /\ LimiterUnchanged

CvsOf(has) ==
  {[id |-> u, user_id |-> u, created_at |-> 0,
    embedding |-> (has[u] = "embedded")] : u \in {x \in Users : has[x] # "none"}}

InitBatch ==
  /\ InitLimiter
  /\ distance = MatchPool
  /\ found = FoundInit
  /\ InitRuns
  /\ \E has \in [Users -> {"none", "uploaded", "embedded"}] : cvs = CvsOf(has)
  /\ refreshed = RefreshedInit
  /\ batch = BatchInit
  /\ InitTasks

\* One batch task at a time, and refreshes through the search service, over
\* users in every state of upload.
NextBatch ==
  \/ \E task \in {"update_job_embeddings", "refresh_job_matches"},
       fail \in BOOLEAN : StartTask(task, fail)
  \/ ItemGetCv
  \/ \E fail \in BOOLEAN : ItemCompute(fail)
  \/ \E fail \in BOOLEAN : ItemUpdate(fail)
  \/ \E fail \in BOOLEAN : TaskCommit(fail)
  \/ \E u \in Users, fail \in BOOLEAN : RefreshJobMatches(u, fail)

SpecBatch == InitBatch /\ [][NextBatch]_vars

InitJobs ==
  /\ InitLimiter
  /\ distance = MatchPool
  /\ found = FoundInit
  /\ InitRuns
  /\ cvs = {}
  /\ refreshed = RefreshedInit
  /\ batch = BatchInit
  /\ jobs \in [JobIds -> {JobRow(FALSE, None), JobRow(TRUE, None),
                          JobRow(TRUE, 0)}]
  /\ cvtask = CvTaskInit

\* update_job_embeddings as the beat schedule runs it, again and again,
\* while the clock advances.
NextJobs ==
  \/ \E fail \in BOOLEAN : StartTask("update_job_embeddings", fail)
  \/ \E fail \in BOOLEAN : ItemCompute(fail)
  \/ \E fail \in BOOLEAN : ItemUpdate(fail)
  \/ \E fail \in BOOLEAN : TaskCommit(fail)
  \/ Tick

SpecJobs == InitJobs /\ [][NextJobs]_vars

\* The job that is followed from run to run.
Target == NumJobs

\* The first job has its embedding, the others wait for theirs.
InitRetry ==
  /\ InitLimiter
  /\ distance = MatchPool
  /\ found = FoundInit
  /\ InitRuns
  /\ cvs = {}
  /\ refreshed = RefreshedInit
  /\ batch = BatchInit
  /\ jobs = [j \in JobIds |-> IF j = 1 THEN JobRow(TRUE, None)
                              ELSE JobRow(FALSE, None)]
  /\ cvtask = CvTaskInit

\* The task in the surroundings the retry of a job is promised for: the
\* store answers the page query and the commit, and the flush of the job
\* that is followed does not fail on its own account.  The provider may
\* fail for any job and the flush may fail for any other job.
NextRetry ==
  \/ StartTask("update_job_embeddings", FALSE)
  \/ \E fail \in BOOLEAN : ItemCompute(fail)
  \/ \E fail \in BOOLEAN : (fail => batch.i # Target) /\ ItemUpdate(fail)
  \/ TaskCommit(FALSE)
  \/ Tick

\* The beat schedule keeps starting the task and a started task runs to its
\* end; for the job that is followed the provider succeeds again and again.
SpecRetry ==
  /\ InitRetry
  /\ [][NextRetry]_vars
  /\ WF_vars(NextRetry)
  /\ SF_vars(batch.i = Target /\ ItemCompute(FALSE))

(***************************************************************************)
(* The task process_cv of app/tasks/cv.py and its retries.                 *)
(***************************************************************************)
max_retries == 3
RETRY_BASE == 60

\* What can make an attempt fail: failures that pass, and failures that
\* repeat however often the task is run.
Transient == {"rate_limit", "timeout", "store_unavailable"}
Permanent == {"not_found", "no_text", "validation", "dimension"}

\* The ways an attempt can end for a CV row that exists or does not.
Outcomes(exists) ==
  IF exists
  THEN {"ok"} \cup Transient \cup (Permanent \ {"not_found"})
  ELSE {"not_found", "store_unavailable"}

retry_in_linear(n) == RETRY_BASE * (n + 1)

\* retry_in = 60 * (2 ** self.request.retries)
retry_in(n) == RETRY_BASE * 2^n

\* raise self.retry(exc=e, countdown=retry_in): the task is sent again with
\* request.retries + 1, unless that exceeds max_retries, in which case exc
\* is raised and the task has failed.
retry(t, cause) ==
  IF t.retries + 1 > max_retries
  THEN [t EXCEPT !.stage = "done", !.status = "failure", !.cause = cause]
  ELSE [t EXCEPT !.stage = "queued", !.retries = @ + 1, !.cause = cause,
                 !.scheduled = Append(@, retry_in(t.retries))]

\* The UPDATE of the flush of cv_repo.update(cv) writes the mapped columns
\* that were assigned.  CV maps embedding; it maps no status, extracted_text
\* or analysis, so these assignments make attributes of the instance only.
Persisted(row) == [row EXCEPT !.embedding = TRUE]

\* process_cv.delay(cv_id, file_path, user_id)
Enqueue ==
  /\ cvtask.stage = "new"
  /\ cvtask' = [cvtask EXCEPT !.stage = "queued"]
  /\ UNCHANGED <<distance, found, cvs, refreshed, batch, jobs>>
  /\ UNCHANGED run_vars
  /\ LimiterUnchanged

\* One run of the body of process_cv by a worker.  Every exception, of any
\* step, reaches `except Exception` and self.retry; nothing is committed
\* before the one commit at the end.
Attempt(outcome) ==
  /\ cvtask.stage = "queued"
  /\ outcome \in Outcomes(cvtask.exists)
  /\ LET t == [cvtask EXCEPT !.attempts = @ + 1]
     IN cvtask' =
          IF outcome = "ok"
          THEN [t EXCEPT !.stage = "done", !.status = "success",
                         !.cause = "none", !.row = Persisted(t.row)]
          ELSE retry(t, outcome)
  /\ UNCHANGED <<distance, found, cvs, refreshed, batch, jobs>>
  /\ UNCHANGED run_vars
  /\ LimiterUnchanged

\* handle_cv_match of the bot: cv = await cv_repo.get_latest_cv(...).
\* CVRepository has no get_latest_cv, so the call raises AttributeError
\* before cv.status is looked at, and no search is started.
HandleCvMatch ==
  /\ cvtask.bot = "none"
  /\ cvtask' = [cvtask EXCEPT !.bot = "AttributeError"]
  /\ UNCHANGED <<distance, found, cvs, refreshed, batch, jobs>>
  /\ UNCHANGED run_vars
  /\ LimiterUnchanged

InitCv ==
  /\ InitLimiter
  /\ distance = MatchPool
  /\ found = FoundInit
  /\ InitRuns
  /\ cvs = {}
  /\ refreshed = RefreshedInit
  /\ batch = BatchInit
  /\ jobs = [j \in JobIds |-> JobRow(FALSE, None)]
  /\ \E e \in BOOLEAN : cvtask = [CvTaskInit EXCEPT !.exists = e]

\* One process_cv task from its queueing to its end, and the bot asking for
\* matches at any time.
NextCv ==
  \/ Enqueue
  \/ \E outcome \in {"ok"} \cup Transient \cup Permanent : Attempt(outcome)
  \/ HandleCvMatch
  \/ Tick

SpecCv == InitCv /\ [][NextCv]_vars

(***************************************************************************)
(* Properties.                                                             *)
(***************************************************************************)

\* C1: one caller at a time, working store.  An acquire that begins and ends
\* inside one window succeeds when it is one of the first max_requests such
\* calls of that window (so also in the window after a saturated one), and
\* raises RateLimitError when it is a later one.
C1_WindowBoundary ==
  (last.op = "acquire" /\ last.ord > 0) =>
    /\ (last.ord <= max_requests => last.status = "ok")
    /\ (last.ord > max_requests =>
          last.status = "error" /\ last.err.type = "RateLimitError")

\* C2: in every window, at most max_requests acquire calls succeed on an
\* increment made in that window, whatever the interleaving.
C2_AtMostMaxPerWindow ==
  \A b \in Buckets : okIncr[b] <= max_requests

C4_CounterHasExpiry ==
  (counter > 0 /\ expiry = NoExpiry) => \E w \in Workers : pc[w] = "expire"

\* C5: a store failure during acquire blocks the call, and the error that
\* reaches the caller differs in type or error code from the error of an
\* exceeded limit.
C5_StoreFailureDistinct ==
  (last.op = "embed" /\ last.acq = "store_error") =>
    /\ last.status = "error"
    /\ ~last.provider
    /\ \/ last.err.type # RateLimitError("Rate limit exceeded").type
       \/ last.err.code # RateLimitError("Rate limit exceeded").code

C7_InfoReadOnly ==
  /\ [][\A w \in Workers :
          (pc[w] \in {"info_get", "info_ttl"} /\ pc'[w] # pc[w]) =>
            /\ counter' = counter
            /\ expiry' = expiry
            /\ (pc'[w] = "info_ttl" => loc'[w].seen = counter)]_vars
  /\ [](last.op = "info" /\ last.status = "ok" =>
          /\ (last.seen = 0 => last.value = max_requests)
          /\ (last.seen >= max_requests => last.value = 0)
          /\ (last.seen \in 1..max_requests =>
                last.value = max_requests - last.seen))

\* C7 witness: get_limit_info reported 0 remaining for a saturated counter,
\* which is still stored with the count it read.
C7_Witness ==
  /\ last.op = "info"
  /\ last.status = "ok"
  /\ last.seen > max_requests
  /\ last.value = 0
  /\ counter = last.seen

\* C8: generate_embedding returns only vectors of the configured dimension
\* and no other length is stored as a CV embedding.
C8_DimensionInvariant ==
  /\ (last.op = "embed" /\ last.status = "ok") =>
        last.value = EMBEDDING_DIMENSIONS
  /\ cv_embedding \in {0, EMBEDDING_DIMENSIONS}

\* C9: text that is empty after trimming or over the token budget never
\* reaches the provider and ends in a ValidationError; text that reaches the
\* provider is the cleaned text, not a cut of it.
C9_TextValidated ==
  /\ \A w \in Workers :
       loc[w].provider =>
         /\ loc[w].text.inner > 0
         /\ loc[w].text.tokens <= max_text_length
         /\ loc[w].sent.tokens = loc[w].text.tokens
  /\ (/\ last.op \in {"embed", "cv"}
      /\ last.acq \in {"ok", "none"}
      /\ (last.text.inner = 0 \/ last.text.tokens > max_text_length)) =>
       /\ last.status = "error"
       /\ last.err.type = "ValidationError"
       /\ ~last.provider

\* C10: health_check returns a boolean and never raises; once init() has
\* returned, it makes the probe embed call and returns whether it succeeded.
C10_HealthCheck ==
  last.op = "health" =>
    /\ last.status = "ok"
    /\ last.value \in BOOLEAN
    /\ (last.probe = "failed" => last.value = FALSE)
    /\ (last.probe = "ok" => last.value = TRUE)
    /\ (last.ready => last.probe # "none")

\* The position of job j in the pool's iteration order is its id.
Ordered(r) ==
  \A i, k \in 1..Len(r) : i < k => r[i][2] >= r[k][2]

Qualifying(q) == {j \in JobIds : Similar(q, j)}

IsSearchOk == found.status = "ok"

\* C11: every (item, score) pair a search returns has score >=
\* min_similarity, the score is the item's similarity, and no pool item
\* whose similarity is below min_similarity is in the result.
C11_Threshold ==
  IsSearchOk =>
    /\ \A i \in 1..Len(found.result) :
         /\ found.result[i][2] >= found.q.min_similarity
         /\ distance[found.result[i][1]] # NoEmbedding
         /\ found.result[i][2] = Similarity(distance[found.result[i][1]])
    /\ \A j \in JobIds :
         (distance[j] = NoEmbedding
            \/ Similarity(distance[j]) < found.q.min_similarity)
         => \A i \in 1..Len(found.result) : found.result[i][1] # j

\* A search returned some jobs and left out a job of the pool that has a
\* vector and passes the filters but is below the threshold.
C11_Witness ==
  /\ IsSearchOk
  /\ Len(found.result) >= 1
  /\ \E j \in JobIds :
       /\ SimilarNoThreshold(found.q, j)
       /\ Similarity(distance[j]) < found.q.min_similarity

\* C12: the filters and the threshold are applied before the limit: the
\* result holds min(limit, n) distinct qualifying jobs, n being the number
\* of jobs that pass the filters and the threshold, best first, and no
\* qualifying job left out is better than a job returned.
C12_FilterBeforeLimit ==
  IsSearchOk =>
    LET r == found.result
        n == Cardinality(Qualifying(found.q))
    IN /\ Len(r) = Min(found.q.limit, n)
       /\ \A i \in 1..Len(r) : r[i][1] \in Qualifying(found.q)
       /\ \A i, k \in 1..Len(r) : i # k => r[i][1] # r[k][1]
       /\ Ordered(r)
       /\ \A j \in Qualifying(found.q) :
            (\A i \in 1..Len(r) : r[i][1] # j)
            => \A i \in 1..Len(r) : r[i][2] >= Similarity(distance[j])

\* A search with a filter set returned as many jobs as the limit allows
\* although a better job that fails the filter is in the pool.
C12_Witness ==
  /\ IsSearchOk
  /\ found.q.location # ""
  /\ Len(found.result) = found.q.limit
  /\ \E j \in JobIds :
       /\ distance[j] # NoEmbedding
       /\ ~Similar(found.q, j)
       /\ \A i \in 1..Len(found.result) :
            Similarity(distance[j]) > found.result[i][2]

\* C13: results come best first, jobs of equal score keep the pool's
\* order, and the same call on the same pool returns the same result.
C13_StableDeterministic ==
  IsSearchOk =>
    /\ Ordered(found.result)
    /\ \A i, k \in 1..Len(found.result) :
         (i < k /\ found.result[i][2] = found.result[k][2])
         => found.result[i][1] < found.result[k][1]
    /\ (found.repeated => found.again = found.result)

RowsOf(u, j) == {m \in job_matches : m.telegram_id = u /\ m.job_id = j}

Overlapped(a, b) == a \in mloc[b].overlap \/ b \in mloc[a].overlap

\* C14: runs for one user one after the other, all inside the freshness
\* window: every (user, job) pair has at most one row, and all rows of a
\* user were made by one run, so that a later run adds none.
C14_IdempotentPersist ==
  /\ \A u \in Users, j \in JobIds : Cardinality(RowsOf(u, j)) <= 1
  /\ \A m1, m2 \in job_matches :
       m1.telegram_id = m2.telegram_id => m1.run = m2.run

\* C15: no (user, job) pair has rows from two runs that were in progress
\* at the same time.
C15_NoConcurrentDuplicate ==
  \A m1, m2 \in job_matches :
    (m1.telegram_id = m2.telegram_id /\ m1.job_id = m2.job_id
       /\ m1.run # m2.run)
    => ~Overlapped(m1.run, m2.run)

C19_LatestCv ==
  refreshed.status # "none" =>
    LET mine == {c \in refreshed.seen : c.user_id = refreshed.user_id}
    IN /\ (refreshed.cv # NoCv =>
             /\ refreshed.cv \in mine
             /\ \A c \in mine : c.created_at <= refreshed.cv.created_at)
       /\ (refreshed.cv = NoCv /\ refreshed.err = NoError => mine = {})

\* A user with an older and a newer CV was read, and the newer one was
\* taken.
C19_Witness ==
  /\ refreshed.cv # NoCv
  /\ \E c \in refreshed.seen :
       /\ c.user_id = refreshed.user_id
       /\ c.created_at < refreshed.cv.created_at

\* The CVs of user u among the rows S.
CvsOfUser(S, u) == {c \in S : c.user_id = u}

\* C17: a refresh for a user without a CV ends with a no-document error:
\* the search service raises it instead of returning a result, and the
\* task counts the user as failed instead of passing over it.
C17_NoDocument ==
  /\ (refreshed.op = "refresh_job_matches" /\ ~refreshed.fault
        /\ CvsOfUser(refreshed.seen, refreshed.user_id) = {})
     => (refreshed.status = "error"
           /\ refreshed.err.type = "ValueError"
           /\ refreshed.err.msg = "No CV found for user")
  /\ (batch.task = "refresh_job_matches" /\ ~batch.broken)
     => \A u \in batch.items :
          (batch.result[u] # "none" /\ CvsOfUser(cvs, u) = {})
          => (batch.result[u] = "failed" /\ u \notin batch.pending)

\* C18: a refresh for a user whose latest CV has no embedding ends with a
\* no-embedding error that the caller receives, without a search: the
\* search service raises it, and the task counts the user as failed
\* instead of passing over it.
C18_NoEmbedding ==
  /\ (refreshed.op = "refresh_job_matches" /\ ~refreshed.fault
        /\ refreshed.cv # NoCv /\ ~refreshed.cv.embedding)
     => (refreshed.status = "error"
           /\ refreshed.err.type = "ValueError"
           /\ refreshed.err.msg = "CV has no embedding"
           /\ ~refreshed.searched)
  /\ (batch.task = "refresh_job_matches" /\ ~batch.broken)
     => \A u \in batch.items :
          (batch.result[u] # "none"
             /\ \E c \in CvsOfUser(cvs, u) : ~c.embedding)
          => (batch.result[u] = "failed" /\ u \notin batch.pending)

\* C20: when a batch task has ended and neither the read of its page nor
\* its commit failed on its own, the task has returned its summary, every
\* item of the page was processed, and every item that succeeded is
\* committed.
C20_BatchResilience ==
  (batch.stage = "done" /\ ~batch.fault) =>
    /\ batch.status = "ok"
    /\ \A x \in batch.items : batch.result[x] # "none"
    /\ \A x \in batch.items : batch.result[x] = "ok" => x \in batch.committed

\* The items of the run that were updated.
Updated(b) == {x \in b.items : b.result[x] = "ok"}

C22_RaisesOnlyBatchLevel ==
  batch.stage = "done" =>
    /\ (batch.status = "raised") <=> batch.fault
    /\ batch.status = "raised" => batch.committed = {}

\* C23: a run of update_job_embeddings that starts within the freshness
\* threshold of the commit of the run before it neither selects nor sends
\* to the provider a job which that run updated.
C23_RerunNoop ==
  (batch.task = "update_job_embeddings"
     /\ batch.started - batch.prev_at < EmbeddingFreshness)
  => (batch.prev \cap batch.items = {} /\ batch.prev \cap batch.provider = {})

\* C24: a job whose refresh failed in a run eventually has an embedding,
\* given that the schedule keeps firing and that the provider eventually
\* succeeds for it.
C24_EventuallyEmbedded ==
  (Target \in batch.items /\ batch.result[Target] = "failed")
    ~> jobs[Target].embedding

\* C29: whenever the rows of the jobs change during update_job_embeddings,
\* the row of every job that the run has not counted as updated stays as it
\* was.
C29_FailedUnchanged ==
  [][\A j \in JobIds :
       (j \notin Updated(batch)) => jobs'[j] = jobs[j]]_vars

\* A run has committed the embedding of one job while another job of its
\* page, whose processing raised, is still without one.
C29_Witness ==
  /\ batch.task = "update_job_embeddings"
  /\ batch.status = "ok"
  /\ \E j \in batch.items, k \in batch.items :
       /\ batch.result[j] = "failed" /\ ~jobs[j].embedding
       /\ batch.result[k] = "ok" /\ jobs[k].embedding

\* C25: the n-th retry of process_cv is scheduled 60 * 2^n seconds ahead,
\* no countdown exceeds the one of the last retry, there are at most
\* max_retries retries, and a task whose attempt failed with the retries
\* used up has ended in failure.
C25_BoundedBackoff ==
  /\ \A n \in 1..Len(cvtask.scheduled) :
       /\ cvtask.scheduled[n] = 60 * 2^(n - 1)
       /\ cvtask.scheduled[n] <= 240
  /\ Len(cvtask.scheduled) = cvtask.retries
  /\ cvtask.retries <= max_retries
  /\ cvtask.attempts <= max_retries + 1
  /\ (cvtask.attempts = max_retries + 1 /\ cvtask.cause # "none")
     => (cvtask.stage = "done" /\ cvtask.status = "failure")

\* The task has failed after three retries, scheduled 60, 120 and 240
\* seconds ahead.
C25_Witness ==
  /\ cvtask.status = "failure"
  /\ cvtask.scheduled = <<60, 120, 240>>

\* C26: a retry of process_cv is scheduled only after a transient failure;
\* after a permanent one the task has ended in failure at once.
C26_RetryOnlyTransient ==
  cvtask.cause \in Permanent =>
    (cvtask.status = "failure" /\ cvtask.scheduled = <<>>)

\* C30: a process_cv task that has succeeded has committed the status
\* processed with the text, the analysis and the embedding; a committed CV
\* with status processed has an embedding; the bot starts its search for
\* such a CV only.
C30_ProcessedHasEmbedding ==
  /\ cvtask.status = "success"
     => (cvtask.row.status = "processed" /\ cvtask.row.extracted_text
           /\ cvtask.row.analysis /\ cvtask.row.embedding)
  /\ cvtask.row.status = "processed" => cvtask.row.embedding
  /\ cvtask.bot = "search"
     => (cvtask.row.status = "processed" /\ cvtask.row.embedding)

\* C27: once init() of the embedding service has returned, its initialized
\* flag is set; and the health loop closes the service only after a health
\* check of the iteration in which a dependency failed.
C27_HealthyStaysOpen ==
  /\ initOk => initialized
  /\ last.op = "loop_close" => (last.fault \/ last.probe = "failed")

\* C28: no embedding call fails on a store command whose client the
\* close() of the embedding service has closed.
C28_LimiterUsable ==
  last.op = "embed" =>
    ~(last.status = "error" /\ last.fault /\ last.closed)
====
